---------------------------- MODULE Spec2Model ----------------------------
(***************************************************************************)
(* A model of wled_client: segments and segment groups proxied onto        *)
(* per-device pixel buffers (segments.py), light shows and the background  *)
(* task of a temporal show (effects.py), and the action handlers           *)
(* (server.py).                                                            *)
(*                                                                         *)
(* Three specifications share the variables:                               *)
(*   SpecBuild   SegmentGroups construction applied to a configuration     *)
(*   SpecPixels  segment / group pixel reads and writes and the static     *)
(*               show, on a constructed configuration                      *)
(*   Spec        the handlers, the shows and their background tasks        *)
(***************************************************************************)
EXTENDS Integers, Sequences, FiniteSets, TLC

\* ------------------------------------------------------------------ bounds
NumPixels == 4
MaxSegments == 3
MaxThreads == 3

\* ------------------------------------------------------------- basic values
DeviceIds == {"a", "b"}

\* device.config['pixel_count'] of the device registry
PixelCount(d) == NumPixels

\* The zero color (0, 0, 0)
BLACK == "BLACK"

Min(x, y) == IF x <= y THEN x ELSE y

\* Python's s[a:b] for 0 <= a (0-indexed, b exclusive, clipped to the length)
Slice(s, a, b) == SubSeq(s, a + 1, Min(b, Len(s)))

\* numpy's s[a:b] = v for a value sequence v of the slice's own length
SliceAssign(s, a, b, v) ==
    LET hi == Min(b, Len(s))
    IN IF a >= hi THEN s
       ELSE SubSeq(s, 1, a) \o SubSeq(v, 1, hi - a)
                \o SubSeq(s, hi + 1, Len(s))

\* A local variable: the value assigned to it, computed once (S holds it)
Only(S) == CHOOSE x \in S : TRUE

\* ------------------------------------------------------ Segment (segments.py)
\* A segment is its validated config: device_id, pixel_start, pixel_end.
Seg(d, a, b) == [device_id |-> d, pixel_start |-> a, pixel_end |-> b]

\* The segments configurations are drawn from: every range of device "a",
\* the first pixel and the whole of device "b", a range whose start is after
\* its end, and a segment of a device that does not exist
SegmentSpace ==
    {s \in {Seg("a", x, y) : x, y \in 0..(NumPixels - 1)} :
        s.pixel_start <= s.pixel_end}
    \cup {Seg("b", 0, 0), Seg("b", 0, NumPixels - 1)}
    \cup {Seg("a", 2, 1), Seg("z", 0, 0)}

\* Segment.pixels (getter)
SegmentPixels(buf, seg) ==
    Slice(buf[seg.device_id], seg.pixel_start, seg.pixel_end)

\* A setter without the length check: it writes as many of the pixels as fit
SegmentSetTruncating(buf, seg, pixels) ==
    LET n == Min(Len(pixels), Len(SegmentPixels(buf, seg)))
    IN [ok |-> TRUE,
        buf |-> [buf EXCEPT ![seg.device_id] =
                    SliceAssign(@, seg.pixel_start, seg.pixel_start + n,
                                SubSeq(pixels, 1, n))]]

\* A setter that writes the slice into every device's buffer
SegmentSetEveryDevice(buf, seg, pixels) ==
    IF Len(pixels) # Len(SegmentPixels(buf, seg))
    THEN [ok |-> FALSE, buf |-> buf]
    ELSE [ok |-> TRUE,
          buf |-> [d \in DOMAIN buf |->
                      SliceAssign(buf[d], seg.pixel_start, seg.pixel_end,
                                  pixels)]]

\* Segment.pixels (setter): [ok, buf]
SegmentSet(buf, seg, pixels) ==
    IF Len(pixels) # Len(SegmentPixels(buf, seg))
    THEN [ok |-> FALSE, buf |-> buf]
    ELSE [ok |-> TRUE,
          buf |-> [buf EXCEPT ![seg.device_id] =
                      SliceAssign(@, seg.pixel_start, seg.pixel_end, pixels)]]

\* ------------------------------------------------- SegmentGroup (segments.py)
\* sorted(..., key=pixel_start): a stable sort
InsertSorted(sorted, seg) ==
    LET n == Cardinality({k \in 1..Len(sorted) :
                             sorted[k].pixel_start <= seg.pixel_start})
    IN SubSeq(sorted, 1, n) \o <<seg>> \o SubSeq(sorted, n + 1, Len(sorted))

RECURSIVE SortedByStart(_)
SortedByStart(segs) ==
    IF segs = <<>> THEN <<>>
    ELSE InsertSorted(SortedByStart(SubSeq(segs, 1, Len(segs) - 1)),
                      segs[Len(segs)])

\* A getter that returns the pixels of the group's first segment only
GroupPixelsOfFirst(buf, segs) ==
    IF segs = <<>> THEN <<>> ELSE SegmentPixels(buf, Head(segs))

\* SegmentGroup.pixels (getter): np.concatenate over the sorted segments
RECURSIVE GroupPixels(_, _)
GroupPixels(buf, segs) ==
    IF segs = <<>> THEN <<>>
    ELSE SegmentPixels(buf, Head(segs)) \o GroupPixels(buf, Tail(segs))

\* The loop of SegmentGroup.pixels (setter); next_pixel is never advanced
RECURSIVE GroupSetLoop(_, _, _, _)
GroupSetLoop(buf, segs, pixels, next_pixel) ==
    IF segs = <<>> THEN [ok |-> TRUE, buf |-> buf]
    ELSE LET seg == Head(segs)
             segment_pixels ==
                 Slice(pixels, next_pixel,
                       next_pixel + Len(SegmentPixels(buf, seg)))
         IN Only({IF ~r.ok THEN r
                  ELSE GroupSetLoop(r.buf, Tail(segs), pixels, next_pixel) :
                     r \in {SegmentSet(buf, seg, segment_pixels)}})

\* SegmentGroup.pixels (setter): [ok, buf]
GroupSet(buf, segs, pixels) ==
    IF Len(pixels) # Len(GroupPixels(buf, segs))
    THEN [ok |-> FALSE, buf |-> buf]
    ELSE GroupSetLoop(buf, segs, pixels, 0)


\* ------------------------------------------ SegmentGroups construction
\* _segments_overlap(segment1, segment2)
segments_overlap(segment1, segment2) ==
    LET start2 == segment2.pixel_start
        end2 == segment2.pixel_end
        start_is_in_segment2 ==
            start2 <= segment1.pixel_start /\ segment1.pixel_start <= end2
        end_is_in_segment2 ==
            start2 <= segment1.pixel_end /\ segment1.pixel_end <= end2
    IN start_is_in_segment2 \/ end_is_in_segment2

\* list.insert(i, x)
ListInsert(list, i, x) ==
    SubSeq(list, 1, i) \o <<x>> \o SubSeq(list, i + 1, Len(list))

\* The for ... else of _map_segment_to_devices: the loop iterates over the
\* list it inserts into (i is the 0-based index of the iterator); it has no
\* break, so the else branch (append) always runs after it.
RECURSIVE InsertLoop(_, _, _)
InsertLoop(existing_segments, segment, i) ==
    IF i >= Len(existing_segments) THEN existing_segments
    ELSE IF segment.pixel_start > existing_segments[i + 1].pixel_end
         THEN InsertLoop(ListInsert(existing_segments, i + 1, segment),
                         segment, i + 1)
         ELSE InsertLoop(existing_segments, segment, i + 1)

\* The for loop never ends: once the segment is inserted, the iterator comes
\* to the inserted segment itself, and a segment that starts after its own
\* end is inserted after itself again, without end
InsertLoopDiverges(existing_segments, segment) ==
    /\ segment.pixel_start > segment.pixel_end
    /\ \E k \in 1..Len(existing_segments) :
          segment.pixel_start > existing_segments[k].pixel_end

\* _map_segment_to_devices(segment, device_map): [ok, hang, device_map]
map_segment_to_devices(segment, device_map) ==
    IF segment.device_id \notin DOMAIN device_map
    THEN [ok |-> FALSE, hang |-> FALSE, device_map |-> device_map]
    ELSE LET existing_segments == device_map[segment.device_id]
         IN IF \E k \in 1..Len(existing_segments) :
                   segments_overlap(segment, existing_segments[k])
            THEN [ok |-> FALSE, hang |-> FALSE, device_map |-> device_map]
            ELSE IF InsertLoopDiverges(existing_segments, segment)
            THEN [ok |-> FALSE, hang |-> TRUE, device_map |-> device_map]
            ELSE [ok |-> TRUE, hang |-> FALSE,
                  device_map |->
                      [device_map EXCEPT ![segment.device_id] =
                          Append(InsertLoop(existing_segments, segment, 0),
                                 segment)]]

\* The segments of all groups, in the order _map_groups_to_devices visits them
RECURSIVE Flatten(_)
Flatten(groups) ==
    IF groups = <<>> THEN <<>> ELSE Head(groups) \o Flatten(Tail(groups))

RECURSIVE MapLoop(_, _)
MapLoop(segs, device_map) ==
    IF segs = <<>>
    THEN [ok |-> TRUE, hang |-> FALSE, device_map |-> device_map]
    ELSE LET r == map_segment_to_devices(Head(segs), device_map)
         IN IF ~r.ok THEN r ELSE MapLoop(Tail(segs), r.device_map)

\* _map_groups_to_devices(devices, groups): [ok, hang, device_map]
map_groups_to_devices(groups) ==
    MapLoop(Flatten(groups), [d \in DeviceIds |-> <<>>])

\* The scan of _check_unused_pixels over one device's segment list
RECURSIVE UnusedScan(_, _, _)
UnusedScan(segments, last_pixel, unused_segments) ==
    IF segments = <<>>
    THEN [last_pixel |-> last_pixel, unused_segments |-> unused_segments]
    ELSE LET segment == Head(segments)
         IN UnusedScan(Tail(segments), segment.pixel_end,
                IF segment.pixel_start - last_pixel > 1
                THEN Append(unused_segments,
                            <<last_pixel + 1, segment.pixel_start - 1>>)
                ELSE unused_segments)

\* _check_unused_pixels(device_map): per device, the ranges the warning lists
\* (<<>>: no warning for that device)
check_unused_pixels(device_map) ==
    [d \in DOMAIN device_map |->
        IF Len(device_map[d]) = 0 THEN <<>>
        ELSE LET r == UnusedScan(device_map[d], -1, <<>>)
             IN IF r.last_pixel < PixelCount(d) - 1
                THEN Append(r.unused_segments,
                            <<r.last_pixel + 1, PixelCount(d) - 1>>)
                ELSE r.unused_segments]

NotBuilt ==
    [status |-> "none", groups |-> <<>>,
     device_map |-> [d \in DeviceIds |-> <<>>],
     unused |-> [d \in DeviceIds |-> <<>>]]

BuildError == [NotBuilt EXCEPT !.status = "error"]

\* The construction does not return (the list grows until memory runs out)
BuildHang == [NotBuilt EXCEPT !.status = "hang"]

\* A construction that leaves out the segments of devices that do not exist
RECURSIVE KnownOnly(_)
KnownOnly(segs) ==
    IF segs = <<>> THEN <<>>
    ELSE (IF Head(segs).device_id \in DeviceIds THEN <<Head(segs)>> ELSE <<>>)
             \o KnownOnly(Tail(segs))

SegmentGroupsInitSkipping(segment_group_configs) ==
    LET groups == [g \in 1..Len(segment_group_configs) |->
                      SortedByStart(KnownOnly(segment_group_configs[g]))]
        m == map_groups_to_devices(groups)
    IN IF ~m.ok THEN (IF m.hang THEN BuildHang ELSE BuildError)
       ELSE [status |-> "ok", groups |-> groups,
             device_map |-> m.device_map,
             unused |-> check_unused_pixels(m.device_map)]

\* SegmentGroups.__init__ (Segment.__init__ looks its device up in
\* device_effects; SegmentGroup.__init__ sorts its segments)
SegmentGroupsInit(segment_group_configs) ==
    IF \E g \in 1..Len(segment_group_configs) :
          \E k \in 1..Len(segment_group_configs[g]) :
              segment_group_configs[g][k].device_id \notin DeviceIds
    THEN BuildError
    ELSE LET groups == [g \in 1..Len(segment_group_configs) |->
                           SortedByStart(segment_group_configs[g])]
             m == map_groups_to_devices(groups)
         IN IF ~m.ok THEN (IF m.hang THEN BuildHang ELSE BuildError)
            ELSE [status |-> "ok", groups |-> groups,
                  device_map |-> m.device_map,
                  unused |-> check_unused_pixels(m.device_map)]


\* The sequence segs cut into groups: a new group starts after each position
\* of cuts
RECURSIVE Split(_, _, _)
Split(segs, cuts, k) ==
    IF k > Len(segs) THEN <<>>
    ELSE LET rest == Split(segs, cuts, k + 1)
         IN IF k = Len(segs) \/ k \in cuts
            THEN <<<<segs[k]>>>> \o rest
            ELSE <<<<segs[k]>> \o Head(rest)>> \o Tail(rest)


\* ----------------------------------------------------- shows (effects.py)
\* The color table of the colors module: a color is named by its key.
COLOR_MAP == {"WARM_WHITE", "RED", "BLUE"}

\* The colors module object itself, where server.py passes it as a color list
ColorsModule == <<"<module colors>">>

FreeShow ==
    [kind |-> "free", colors |-> <<>>, size_of_color |-> 0,
     space_between |-> 0, thread_active |-> FALSE, thread |-> "none",
     pixel |-> 0]

\* SolidColorLightShow.__init__
SolidColorLightShow(colors, size_of_color, space_between) ==
    [FreeShow EXCEPT !.kind = "solid", !.colors = colors,
                     !.size_of_color = size_of_color,
                     !.space_between = space_between]

\* LedChasing.__init__
LedChasing(colors) ==
    [FreeShow EXCEPT !.kind = "chasing", !.colors = colors]

\* SingleLedChasing(segment_groups, color), imported by client.py
SingleLedChasing(color) ==
    [FreeShow EXCEPT !.kind = "single", !.colors = <<color>>]

IsTemporal(s) == s.kind \in {"chasing", "single"}

\* numpy's pixels[a:b] = color
RECURSIVE Repeat(_, _)
Repeat(color, n) == IF n <= 0 THEN <<>> ELSE <<color>> \o Repeat(color, n - 1)

FillSlice(pixels, a, b, color) ==
    LET hi == Min(b, Len(pixels))
    IN IF a >= hi THEN pixels
       ELSE SubSeq(pixels, 1, a) \o Repeat(color, hi - a)
                \o SubSeq(pixels, hi + 1, Len(pixels))

\* The while loop of SolidColorLightShow.activate
RECURSIVE SolidFill(_, _, _, _, _, _)
SolidFill(pixels, colors, size_of_color, space_between, i, color_block) ==
    IF i >= Len(pixels) THEN pixels
    ELSE SolidFill(
             FillSlice(pixels, i, i + size_of_color,
                       colors[(color_block % Len(colors)) + 1]),
             colors, size_of_color, space_between,
             i + size_of_color + space_between, color_block + 1)

\* The for loop of SolidColorLightShow.activate: [ok, buf]; subscripting or
\* len() of the colors module raises in the first loop body executed
RECURSIVE SolidActivateLoop(_, _, _)
SolidActivateLoop(buf, groups, s) ==
    IF groups = <<>> THEN [ok |-> TRUE, buf |-> buf]
    ELSE LET pixels == GroupPixels(buf, Head(groups))
         IN IF Len(pixels) > 0 /\ s.colors = ColorsModule
            THEN [ok |-> FALSE, buf |-> buf]
            ELSE LET r == GroupSet(buf, Head(groups),
                              SolidFill(pixels, s.colors, s.size_of_color,
                                        s.space_between, 0, 0))
                 IN IF ~r.ok THEN r
                    ELSE SolidActivateLoop(r.buf, Tail(groups), s)

\* LightShow.deactivate: blank every group
RECURSIVE Blank(_, _)
Blank(buf, groups) ==
    IF groups = <<>> THEN buf
    ELSE LET pixels == GroupPixels(buf, Head(groups))
             r == GroupSet(buf, Head(groups),
                           Repeat(BLACK, Len(pixels)))
         IN Blank(r.buf, Tail(groups))

\* LedChasing.effect_loop: [ok, buf, pixel].  In the first group, a cursor
\* outside the group raises at pixels[self._pixel]; otherwise the cursor
\* advances and the first pass of the enumerate loop raises (self._colors[i]
\* on the module, or the generator used as an index), before the group is
\* written back.  Only with no group at all does the call return.
ChasingEffectLoop(buf, groups, s) ==
    IF groups = <<>> THEN [ok |-> TRUE, buf |-> buf, pixel |-> s.pixel]
    ELSE LET n == Len(GroupPixels(buf, Head(groups)))
         IN IF s.pixel >= n
            THEN [ok |-> FALSE, buf |-> buf, pixel |-> s.pixel]
            ELSE [ok |-> FALSE, buf |-> buf, pixel |-> (s.pixel + 1) % n]

\* The rotating single pixel effect_loop: [ok, buf, pixel]; pixels, the
\* written buffer and the cursor are local variables
RECURSIVE SingleEffectLoop(_, _, _, _)
SingleEffectLoop(buf, groups, color, pixel) ==
    IF groups = <<>> THEN [ok |-> TRUE, buf |-> buf, pixel |-> pixel]
    ELSE Only(
        {LET n == Len(pixels)
         IN IF pixel >= n
            THEN [ok |-> FALSE, buf |-> buf, pixel |-> pixel]
            ELSE LET next == (pixel + 1) % n
                     cleared == FillSlice(pixels, pixel, pixel + 1, BLACK)
                     frame == FillSlice(cleared, next, next + 1, color)
                 IN Only({SingleEffectLoop(r.buf, Tail(groups), color, p) :
                             r \in {GroupSet(buf, Head(groups), frame)},
                             p \in {next}}) :
           pixels \in {GroupPixels(buf, Head(groups))}})

\* effect_loop of a temporal show
EffectLoop(buf, groups, s) ==
    IF s.kind = "single"
    THEN SingleEffectLoop(buf, groups, s.colors[1], s.pixel)
    ELSE ChasingEffectLoop(buf, groups, s)

\* _EFFECT_MAP
EffectNames ==
    {"DEFAULT", "ALTERNATE_COLORS", "CANDY_CANE", "MAZELTOV", "MAZEL TOV",
     "CHRISTMAS", "CHASING", "SOLID"}

EFFECT_MAP(name, effect_colors) ==
    CASE name = "DEFAULT" -> SolidColorLightShow(<<"WARM_WHITE">>, 1, 3)
      [] name = "ALTERNATE_COLORS" -> SolidColorLightShow(effect_colors, 1, 3)
      [] name = "CANDY_CANE" ->
             SolidColorLightShow(<<"WARM_WHITE", "RED">>, 10, 0)
      [] name \in {"MAZELTOV", "MAZEL TOV"} ->
             SolidColorLightShow(<<"WARM_WHITE", "BLUE">>, 1, 3)
      [] name = "CHRISTMAS" ->
             SolidColorLightShow(<<"WARM_WHITE", "RED">>, 1, 3)
      [] name = "CHASING" -> LedChasing(ColorsModule)
      [] name = "SOLID" -> SolidColorLightShow(ColorsModule, 1, 0)

\* ------------------------------------------------------------------- state
VARIABLES
    config,           \* the segment group configuration
    segment_groups,   \* ledfx.segment_groups (SegmentGroups, or NotBuilt)
    device_pixels,    \* device_effects[d].pixels, per device
    show,             \* ledfx.show: which show object, "none" for None
    shows,            \* the show objects
    threads,          \* the running threads no show refers to any more
    pending,          \* the handler blocked in Thread.join, if any
    last              \* the last call and its outcome

vars ==
    <<config, segment_groups, device_pixels, show, shows, threads, pending,
      last>>

\* The show objects alive at a time: the one the host built ("host"), the
\* last one a handler built ("made").  A show a handler has replaced is
\* "retired": only its remaining threads still refer to it.
ShowIds == {"host", "made"}
Owners == {"host", "made", "retired"}

\* Where a running thread_function is: at the while test ("started") or in
\* effect_loop and the sleep ("loop").  self._thread of a show is, in the
\* show's record, "none", one of these, or "dead" once it has finished.
\* threads counts, per owner and position, the running threads no show
\* refers to any more.
Positions == {"started", "loop"}

NoThreads == [o \in Owners |-> [p \in Positions |-> 0]]

Idle == [op |-> "idle", arg |-> "", value |-> <<>>]

LastNone ==
    [op |-> "none", arg |-> "", group |-> 0, segment |-> 0, value |-> <<>>,
     size_of_color |-> 0, space_between |-> 0, ok |-> TRUE, status |-> 0,
     joined |-> FALSE,
     dispatch |-> [handler |-> "none", on |-> FALSE, arg |-> <<>>]]

Groups == segment_groups.groups

\* The show objects and threads as one value the handlers transform
Machine ==
    [pixels |-> device_pixels, show |-> show, shows |-> shows,
     threads |-> threads]

\* The running threads of one owner, and of all
Unreferenced(M, o) == M.threads[o]["started"] + M.threads[o]["loop"]

Referenced(M, o) ==
    IF o \in ShowIds /\ M.shows[o].thread \in Positions THEN 1 ELSE 0

Running(M, o) == Unreferenced(M, o) + Referenced(M, o)

AliveCount(M) == Running(M, "host") + Running(M, "made") + Running(M, "retired")

\* A show object nothing refers to any more is dropped: it is not the
\* current one and has no running thread
Collect(M) ==
    [M EXCEPT !.shows =
        [i \in ShowIds |->
            IF i = M.show \/ Running(M, i) > 0 THEN M.shows[i] ELSE FreeShow]]

\* TemporalLightShow.activate: self._thread is overwritten, the thread it
\* referred to runs on
TemporalActivate(M, id) ==
    LET old == M.shows[id].thread
    IN [M EXCEPT !.shows[id].thread_active = TRUE,
                 !.shows[id].thread = "started",
                 !.threads[id] =
                     IF old \in Positions THEN [@ EXCEPT ![old] = @ + 1]
                     ELSE @]

\* show.activate(): [ok, M]
Activate(M, id) ==
    IF IsTemporal(M.shows[id])
    THEN [ok |-> TRUE, M |-> TemporalActivate(M, id)]
    ELSE LET r == SolidActivateLoop(M.pixels, Groups, M.shows[id])
         IN [ok |-> r.ok, M |-> [M EXCEPT !.pixels = r.buf]]

\* Whether show.deactivate() has a thread to join
MustJoin(s) == IsTemporal(s) /\ s.thread_active

\* A join that returns at once, whether or not the thread has finished
JoinDoneNoWait(thread) == TRUE

\* Thread.join() returns once the thread has finished
JoinDone(thread) == thread = "dead"

\* The rest of show.deactivate() once the join is over: self._thread = None
\* drops the reference to the thread, then LightShow.deactivate blanks
DeactivateRest(M, id) ==
    LET old == M.shows[id].thread
    IN [M EXCEPT !.shows[id].thread = "none",
                 !.threads[id] =
                     IF old \in Positions THEN [@ EXCEPT ![old] = @ + 1]
                     ELSE @,
                 !.pixels = Blank(M.pixels, Groups)]

\* ledfx.show = <a new show>: the threads of the show a handler had built
\* before now belong to a retired show
Install(M, s) ==
    [M EXCEPT !.shows["made"] = s, !.show = "made",
              !.threads["made"] = NoThreads["made"],
              !.threads["retired"] =
                  [p \in Positions |->
                      @[p] + M.threads["made"][p]
                      + (IF M.shows["made"].thread = p THEN 1 ELSE 0)]]

\* A thread_function that loops without reading the flag (while True)
ThreadActiveUnread(M, owner) == TRUE

\* self._thread_active as the thread of a show reads it; a retired show has
\* been deactivated before it was replaced, and nothing sets its flag again
ThreadActive(M, owner) ==
    IF owner = "retired" THEN FALSE ELSE M.shows[owner].thread_active

\* self.effect_loop() as the thread of a show runs it: [ok, buf, pixel]; a
\* retired show is a LedChasing (the handlers build no other temporal show)
OwnerEffectLoop(M, owner) ==
    IF owner = "retired"
    THEN ChasingEffectLoop(M.pixels, Groups, LedChasing(ColorsModule))
    ELSE EffectLoop(M.pixels, Groups, M.shows[owner])

\* The bound on the objects: room for the thread a call creates
Room(M) == AliveCount(M) < MaxThreads

DEFAULT_COLORS == <<"WARM_WHITE">>

\* LightEffectAction.__call__ from after the deactivate: [M, status]
EffectRest(M, effect_name, effect_colors) ==
    IF effect_name \notin EffectNames THEN [M |-> M, status |-> 500]
    ELSE LET M1 == Install(M, EFFECT_MAP(effect_name, effect_colors))
             r == Activate(M1, M1.show)
         IN [M |-> r.M, status |-> IF r.ok THEN 200 ELSE 500]

\* LightColorAction.__call__ from after the deactivate: [M, status];
\* LightShow.colors (setter) raises for a show that does not override it
ColorRest(M, selected_colors) ==
    IF M.shows[M.show].kind = "single" THEN [M |-> M, status |-> 500]
    ELSE LET M1 == [M EXCEPT !.shows[M.show].colors = selected_colors]
             r == Activate(M1, M1.show)
         IN [M |-> r.M, status |-> IF r.ok THEN 200 ELSE 500]

\* A power handler that forgets the show it has turned off
AfterDeactivateForgets(M, op, arg, value) ==
    CASE op = "power" -> [M |-> [M EXCEPT !.show = "none"], status |-> 200]
      [] op = "effect" ->
             IF M.shows[M.show].kind = "single"
             THEN [M |-> M, status |-> 500]
             ELSE EffectRest(M, arg, M.shows[M.show].colors)
      [] op = "color" -> ColorRest(M, value)

\* What a handler does after show.deactivate() has returned: [M, status];
\* LightShow.colors (getter) raises for a show that does not override it
AfterDeactivate(M, op, arg, value) ==
    CASE op = "power" -> [M |-> M, status |-> 200]
      [] op = "effect" ->
             IF M.shows[M.show].kind = "single"
             THEN [M |-> M, status |-> 500]
             ELSE EffectRest(M, arg, M.shows[M.show].colors)
      [] op = "color" -> ColorRest(M, value)

\* A handler returns: the objects are stored back and the call recorded
Return(r, op, arg, value, joined) ==
    LET M == Collect(r.M)
    IN /\ device_pixels' = M.pixels
       /\ show' = M.show
       /\ shows' = M.shows
       /\ threads' = M.threads
       /\ pending' = Idle
       /\ last' = [LastNone EXCEPT !.op = op, !.arg = arg, !.value = value,
                                   !.status = r.status,
                                   !.ok = (r.status = 200),
                                   !.joined = joined]
       /\ UNCHANGED <<config, segment_groups>>

\* show.deactivate() called by a handler, up to the join or to the end
Deactivate(op, arg, value) ==
    IF MustJoin(shows[show])
    THEN /\ shows' = [shows EXCEPT ![show].thread_active = FALSE]
         /\ pending' = [op |-> op, arg |-> arg, value |-> value]
         /\ last' = [LastNone EXCEPT !.op = op, !.arg = arg, !.value = value]
         /\ UNCHANGED <<config, segment_groups, device_pixels, show, threads>>
    ELSE Return(AfterDeactivate(
                    [Machine EXCEPT !.pixels = Blank(device_pixels, Groups)],
                    op, arg, value),
                op, arg, value, FALSE)

\* ------------------------------------------------- handlers (server.py)

\* LightPowerAction.__call__(on)
PowerAction(on) ==
    /\ pending = Idle
    /\ IF show # "none"
       THEN IF on
            THEN /\ Room(Machine)
                 /\ LET r == Activate(Machine, show)
                    IN Return([M |-> r.M,
                               status |-> IF r.ok THEN 200 ELSE 500],
                              "power", "ON", <<>>, FALSE)
            ELSE Deactivate("power", "OFF", <<>>)
       ELSE IF on
            THEN /\ Room(Machine)
                 /\ LET M1 == Install(Machine,
                                      EFFECT_MAP("DEFAULT", DEFAULT_COLORS))
                        r == Activate(M1, M1.show)
                    IN Return([M |-> r.M,
                               status |-> IF r.ok THEN 200 ELSE 500],
                              "power", "ON", <<>>, FALSE)
            ELSE Return([M |-> Machine, status |-> 200],
                        "power", "OFF", <<>>, FALSE)

\* LightEffectAction.__call__(effect_name)
EffectAction(effect_name) ==
    /\ pending = Idle
    /\ Room(Machine)
    /\ IF show # "none"
       THEN Deactivate("effect", effect_name, <<>>)
       ELSE Return(EffectRest(Machine, effect_name, DEFAULT_COLORS),
                   "effect", effect_name, <<>>, FALSE)

\* The token the 400 response names: the first that is not in COLOR_MAP
FirstInvalid(color_patterns) ==
    color_patterns[CHOOSE k \in 1..Len(color_patterns) :
                      /\ color_patterns[k] \notin COLOR_MAP
                      /\ \A j \in 1..(k - 1) : color_patterns[j] \in COLOR_MAP]

\* A color handler that does not validate the names
ColorActionUnchecked(color_patterns) ==
    /\ pending = Idle
    /\ Room(Machine)
    /\ IF show = "none"
       THEN LET M1 == Install(Machine, EFFECT_MAP("DEFAULT", color_patterns))
                M2 == [M1 EXCEPT !.pixels = Blank(M1.pixels, Groups)]
            IN Return(ColorRest(M2, color_patterns),
                      "color", "", color_patterns, FALSE)
       ELSE Deactivate("color", "", color_patterns)

\* LightColorAction.__call__(color_pattern), color_patterns being the split
ColorAction(color_patterns) ==
    /\ pending = Idle
    /\ Room(Machine)
    /\ IF \E k \in 1..Len(color_patterns) : color_patterns[k] \notin COLOR_MAP
       THEN Return([M |-> Machine, status |-> 400],
                   "color", FirstInvalid(color_patterns), color_patterns,
                   FALSE)
       ELSE IF show = "none"
            THEN LET M1 == Install(Machine,
                                   EFFECT_MAP("DEFAULT", color_patterns))
                     M2 == [M1 EXCEPT !.pixels = Blank(M1.pixels, Groups)]
                 IN Return(ColorRest(M2, color_patterns),
                           "color", "", color_patterns, FALSE)
            ELSE Deactivate("color", "", color_patterns)

\* Thread.join() returns and the blocked handler runs to its end
JoinReturn ==
    /\ pending # Idle
    /\ JoinDone(shows[show].thread)
    /\ Return(AfterDeactivate(DeactivateRest(Machine, show),
                              pending.op, pending.arg, pending.value),
              pending.op, pending.arg, pending.value, TRUE)

\* --------------------------------- TemporalLightShow.thread_function
\* A running thread of owner o at position p: the one o refers to
\* (referenced), or one of the others
IsAt(o, referenced, p) ==
    IF referenced THEN o \in ShowIds /\ shows[o].thread = p
    ELSE threads[o][p] > 0

\* The thread moves from position p to q ("dead": it finishes)
Move(M, o, referenced, p, q) ==
    IF referenced THEN [M EXCEPT !.shows[o].thread = q]
    ELSE [M EXCEPT !.threads[o] =
             [x \in Positions |->
                 @[x] - (IF x = p THEN 1 ELSE 0) + (IF x = q THEN 1 ELSE 0)]]

\* while self._thread_active:
ThreadCheck(o, referenced) ==
    /\ IsAt(o, referenced, "started")
    /\ LET M == Collect(Move(Machine, o, referenced, "started",
                             IF ThreadActive(Machine, o)
                             THEN "loop" ELSE "dead"))
       IN /\ shows' = M.shows
          /\ threads' = M.threads
    /\ UNCHANGED <<config, segment_groups, device_pixels, show, pending, last>>

\* self.effect_loop(), then the sleep; an exception ends the thread
ThreadLoop(o, referenced) ==
    /\ IsAt(o, referenced, "loop")
    /\ \E r \in {OwnerEffectLoop(Machine, o)} :
       \E M1 \in {Move([Machine EXCEPT !.pixels = r.buf], o, referenced,
                       "loop", IF r.ok THEN "started" ELSE "dead")} :
       \E M \in {Collect(IF o = "retired" THEN M1
                         ELSE [M1 EXCEPT !.shows[o].pixel = r.pixel])} :
          /\ device_pixels' = M.pixels
          /\ shows' = M.shows
          /\ threads' = M.threads
    /\ UNCHANGED <<config, segment_groups, show, pending, last>>

\* ------------------------------------------- LightActionHandler (server.py)
\* An action string is the sequence of its characters
LowerLetters ==
    <<"a", "b", "c", "d", "e", "f", "g", "h", "i", "j", "k", "l", "m", "n",
    "o", "p", "q", "r", "s", "t", "u", "v", "w", "x", "y", "z">>

UpperLetters ==
    <<"A", "B", "C", "D", "E", "F", "G", "H", "I", "J", "K", "L", "M", "N",
    "O", "P", "Q", "R", "S", "T", "U", "V", "W", "X", "Y", "Z">>

\* str.upper(), one character
UpperChar(c) ==
    IF \E i \in 1..Len(LowerLetters) : LowerLetters[i] = c
    THEN UpperLetters[CHOOSE i \in 1..Len(LowerLetters) : LowerLetters[i] = c]
    ELSE c

\* action.upper().replace(" ", "_")
RECURSIVE Normalize(_)
Normalize(action) ==
    IF action = <<>> THEN <<>>
    ELSE <<IF UpperChar(Head(action)) = " " THEN "_"
           ELSE UpperChar(Head(action))>> \o Normalize(Tail(action))

\* The characters of the names the model uses
Chars(name) ==
    CASE name = "" -> <<>>
      [] name = "ON" ->
             <<"O", "N">>
      [] name = "OFF" ->
             <<"O", "F", "F">>
      [] name = "DEFAULT" ->
             <<"D", "E", "F", "A", "U", "L", "T">>
      [] name = "ALTERNATE_COLORS" ->
             <<"A", "L", "T", "E", "R", "N", "A", "T", "E", "_", "C", "O", "L", "O", "R", "S">>
      [] name = "CANDY_CANE" ->
             <<"C", "A", "N", "D", "Y", "_", "C", "A", "N", "E">>
      [] name = "MAZELTOV" ->
             <<"M", "A", "Z", "E", "L", "T", "O", "V">>
      [] name = "MAZEL TOV" ->
             <<"M", "A", "Z", "E", "L", " ", "T", "O", "V">>
      [] name = "MAZEL_TOV" ->
             <<"M", "A", "Z", "E", "L", "_", "T", "O", "V">>
      [] name = "CHRISTMAS" ->
             <<"C", "H", "R", "I", "S", "T", "M", "A", "S">>
      [] name = "CHASING" ->
             <<"C", "H", "A", "S", "I", "N", "G">>
      [] name = "SOLID" ->
             <<"S", "O", "L", "I", "D">>
      [] name = "WARM_WHITE" ->
             <<"W", "A", "R", "M", "_", "W", "H", "I", "T", "E">>
      [] name = "RED" ->
             <<"R", "E", "D">>
      [] name = "BLUE" ->
             <<"B", "L", "U", "E">>
      [] name = "CHARTREUSE" ->
             <<"C", "H", "A", "R", "T", "R", "E", "U", "S", "E">>

Names ==
    {"", "ON", "OFF", "DEFAULT", "ALTERNATE_COLORS", "CANDY_CANE", "MAZELTOV",
     "MAZEL TOV", "MAZEL_TOV", "CHRISTMAS", "CHASING", "SOLID", "WARM_WHITE",
     "RED", "BLUE", "CHARTREUSE"}

\* The name a sequence of characters spells
Str(chars) == CHOOSE name \in Names : Chars(name) = chars

\* The keys of _EFFECT_MAP, as character sequences
EffectKeys == {Chars(name) : name \in EffectNames}

\* str.split('_AND_'): the pieces of s between the occurrences of _AND_,
\* piece being the characters of the current piece read so far
AND == <<"_", "A", "N", "D", "_">>

RECURSIVE SplitLoop(_, _)
SplitLoop(s, piece) ==
    IF s = <<>> THEN <<piece>>
    ELSE IF Len(s) >= Len(AND) /\ SubSeq(s, 1, Len(AND)) = AND
         THEN <<piece>> \o SplitLoop(SubSeq(s, Len(AND) + 1, Len(s)), <<>>)
         ELSE SplitLoop(Tail(s), Append(piece, Head(s)))

SplitAnd(s) == SplitLoop(s, <<>>)

\* The names a sequence of character sequences spells
RECURSIVE StrSeq(_)
StrSeq(pieces) ==
    IF pieces = <<>> THEN <<>>
    ELSE <<Str(Head(pieces))>> \o StrSeq(Tail(pieces))

\* LightActionHandler.__call__: the handler the action goes to, and its
\* argument
Dispatch(raw) ==
    LET action == Normalize(raw)
    IN IF action \in {Chars("ON"), Chars("OFF")}
       THEN [handler |-> "power", on |-> (action = Chars("ON")),
             arg |-> <<>>]
       ELSE IF action \in EffectKeys
            THEN [handler |-> "effect", on |-> FALSE, arg |-> action]
            ELSE [handler |-> "color", on |-> FALSE, arg |-> action]

\* ----------------------------------------------------------- Spec
NoPixels == [d \in DeviceIds |-> [k \in 1..PixelCount(d) |-> BLACK]]

\* Configurations the handlers run on: one segment; two segments on two
\* devices; two groups, the first listing its segments out of order
RunConfigs ==
    {<< <<Seg("a", 0, NumPixels - 1)>> >>,
     << <<Seg("a", 0, 1), Seg("b", 0, NumPixels - 1)>> >>,
     << <<Seg("a", 2, NumPixels - 1), Seg("a", 0, 1)>>,
        <<Seg("b", 0, NumPixels - 1)>> >>}

\* The action strings' color parts
ColorPatterns == {<<"RED">>, <<"RED", "BLUE">>, <<"RED", "CHARTREUSE">>}

\* ledfx.show starts as None or as a show the host has built and not yet
\* activated
Init ==
    /\ config \in RunConfigs
    /\ segment_groups = SegmentGroupsInit(config)
    /\ device_pixels = NoPixels
    /\ show \in {"none", "host"}
    /\ shows = [i \in ShowIds |->
                   IF i = show THEN SingleLedChasing("RED") ELSE FreeShow]
    /\ threads = NoThreads
    /\ pending = Idle
    /\ last = LastNone

\* The action strings that requests carry: the words below as written, in
\* lower case, with spaces for the separator, and capitalised
LowerChar(c) ==
    IF \E i \in 1..Len(UpperLetters) : UpperLetters[i] = c
    THEN LowerLetters[CHOOSE i \in 1..Len(UpperLetters) : UpperLetters[i] = c]
    ELSE c

RECURSIVE Lower(_)
Lower(w) ==
    IF w = <<>> THEN <<>> ELSE <<LowerChar(Head(w))>> \o Lower(Tail(w))

RECURSIVE Spaced(_)
Spaced(w) ==
    IF w = <<>> THEN <<>>
    ELSE <<IF Head(w) = "_" THEN " " ELSE Head(w)>> \o Spaced(Tail(w))

Capital(w) == IF w = <<>> THEN <<>> ELSE <<Head(w)>> \o Lower(Tail(w))

ColorWords ==
    {Chars("RED"), Chars("RED") \o AND \o Chars("BLUE"),
     Chars("RED") \o AND \o Chars("CHARTREUSE")}

ActionWords ==
    {Chars("ON"), Chars("OFF")} \cup EffectKeys \cup {Chars("MAZEL_TOV")}
        \cup ColorWords

\* One spelling of each word, as a request would carry it
RunActions ==
    {Spaced(Lower(w)) : w \in ActionWords \ {Chars("MAZEL_TOV")}}

Variants(w) ==
    {w, Lower(w), Capital(w), Spaced(w), Spaced(Lower(w)), Spaced(Capital(w))}

ActionStrings ==
    UNION {Variants(w) :
              w \in ActionWords
                    \cup {Chars("BLUE"), Chars("WARM_WHITE"),
                          Chars("BLUE") \o AND \o Chars("RED"),
                          Chars("WARM_WHITE") \o AND \o Chars("RED")}}

\* LightActionHandler.__call__ on an action string: the handler called and
\* the argument it gets (the color handler splits its own)
Request(raw) ==
    LET d == Dispatch(raw)
    IN [handler |-> d.handler, on |-> d.on,
        effect_name |-> IF d.handler = "effect" THEN Str(d.arg) ELSE "",
        color_patterns |->
            IF d.handler = "color" THEN StrSeq(SplitAnd(d.arg)) ELSE <<>>]

RunRequests == {Request(raw) : raw \in RunActions}

\* LightActionHandler.__call__ going to each of its three handlers
PowerRequest(request) ==
    /\ request.handler = "power"
    /\ PowerAction(request.on)

EffectRequest(request) ==
    /\ request.handler = "effect"
    /\ EffectAction(request.effect_name)

ColorRequest(request) ==
    /\ request.handler = "color"
    /\ ColorAction(request.color_patterns)

Next ==
    \/ \E request \in RunRequests : PowerRequest(request)
    \/ \E request \in RunRequests : EffectRequest(request)
    \/ \E request \in RunRequests : ColorRequest(request)
    \/ JoinReturn
    \/ \E o \in Owners, referenced \in BOOLEAN : ThreadCheck(o, referenced)
    \/ \E o \in Owners, referenced \in BOOLEAN : ThreadLoop(o, referenced)

Spec == Init /\ [][Next]_vars

\* self._thread.join() returns: the step of JoinReturn seen from the
\* waiting handler, which is blocked until the thread has finished and is
\* no longer waiting afterwards (what the handler then does is in JoinReturn)
Joined ==
    /\ pending # Idle
    /\ JoinDone(shows[show].thread)
    /\ pending' = Idle

\* The scheduling of the threads: each thread_function thread gets to run
\* its next step (the while test, or effect_loop and the bounded sleep), and
\* a join whose thread has finished returns
SpecFair ==
    /\ Init
    /\ [][Next]_vars
    /\ \A o \in Owners, referenced \in BOOLEAN :
           /\ WF_vars(ThreadCheck(o, referenced))
           /\ WF_vars(ThreadLoop(o, referenced))
    /\ WF_pending(Joined)

\* ------------------------------------------------------ SpecBuild
\* Configurations: 1..MaxSegments segments in all, in any number of groups
InitBuild ==
    /\ \E n \in 1..MaxSegments : \E segs \in [1..n -> SegmentSpace] :
           \E cuts \in SUBSET (1..(n - 1)) : config = Split(segs, cuts, 1)
    /\ segment_groups = NotBuilt
    /\ device_pixels = NoPixels
    /\ show = "none"
    /\ shows = [i \in ShowIds |-> FreeShow]
    /\ threads = NoThreads
    /\ pending = Idle
    /\ last = LastNone

\* SegmentGroups(config, ledfx, device_effects), as client.py builds it
Construct ==
    /\ segment_groups = NotBuilt
    /\ segment_groups' = SegmentGroupsInit(config)
    /\ last' = [LastNone EXCEPT !.op = "construct",
                                !.ok = (segment_groups'.status = "ok")]
    /\ UNCHANGED <<config, device_pixels, show, shows, threads, pending>>

NextBuild == Construct

SpecBuild == InitBuild /\ [][NextBuild]_vars

\* ----------------------------------------------------- SpecHandlers
\* The three handlers called directly, as a caller other than
\* LightActionHandler would: the effect handler also with a name that is not
\* a key of _EFFECT_MAP
UnknownEffect == "SPARKLE"

NextHandlers ==
    \/ \E on \in BOOLEAN : PowerAction(on)
    \/ \E effect_name \in EffectNames \cup {UnknownEffect} :
           EffectAction(effect_name)
    \/ \E color_patterns \in ColorPatterns : ColorAction(color_patterns)
    \/ JoinReturn
    \/ \E o \in Owners, referenced \in BOOLEAN : ThreadCheck(o, referenced)
    \/ \E o \in Owners, referenced \in BOOLEAN : ThreadLoop(o, referenced)

SpecHandlers == Init /\ [][NextHandlers]_vars

\* ----------------------------------------------------- SpecRoute
InitRoute ==
    /\ config \in RunConfigs
    /\ segment_groups = SegmentGroupsInit(config)
    /\ device_pixels = NoPixels
    /\ show = "none"
    /\ shows = [i \in ShowIds |-> FreeShow]
    /\ threads = NoThreads
    /\ pending = Idle
    /\ \E raw \in ActionStrings : last = [LastNone EXCEPT !.value = raw]

\* LightActionHandler.__call__ up to the call of the handler
Route ==
    /\ last.op = "none"
    /\ last' = [last EXCEPT !.op = "route", !.dispatch = Dispatch(last.value)]
    /\ UNCHANGED <<config, segment_groups, device_pixels, show, shows,
                   threads, pending>>

NextRoute == Route

SpecRoute == InitRoute /\ [][NextRoute]_vars

\* ----------------------------------------------------- SpecPixels
PixelValues == {"RED", "BLUE"}

\* The sequences written: for every length from 0 to one more than a
\* device holds, the two sequences that alternate between the values
Alternating(n, first, second) ==
    [k \in 1..n |-> IF k % 2 = 1 THEN first ELSE second]

PixelSeqs ==
    {Alternating(n, "RED", "BLUE") : n \in 0..(NumPixels + 1)}
    \cup {Alternating(n, "BLUE", "RED") : n \in 0..(NumPixels + 1)}

ColorLists == {<<"RED">>, <<"RED", "BLUE">>}

MaxSize == 2
MaxSpace == 1

InitPixels ==
    /\ config \in RunConfigs
    /\ segment_groups = SegmentGroupsInit(config)
    /\ device_pixels = NoPixels
    /\ show = "none"
    /\ shows = [i \in ShowIds |-> FreeShow]
    /\ threads = NoThreads
    /\ pending = Idle
    /\ last = LastNone

\* segment.pixels = pixels
SegmentWrite(g, k, pixels) ==
    /\ g \in 1..Len(Groups)
    /\ k \in 1..Len(Groups[g])
    /\ LET r == SegmentSet(device_pixels, Groups[g][k], pixels)
       IN /\ device_pixels' = r.buf
          /\ last' = [LastNone EXCEPT !.op = "segment_write", !.group = g,
                                      !.segment = k, !.value = pixels,
                                      !.ok = r.ok]
    /\ UNCHANGED <<config, segment_groups, show, shows, threads, pending>>

\* segment_group.pixels = pixels
GroupWrite(g, pixels) ==
    /\ g \in 1..Len(Groups)
    /\ LET r == GroupSet(device_pixels, Groups[g], pixels)
       IN /\ device_pixels' = r.buf
          /\ last' = [LastNone EXCEPT !.op = "group_write", !.group = g,
                                      !.value = pixels, !.ok = r.ok]
    /\ UNCHANGED <<config, segment_groups, show, shows, threads, pending>>

\* SolidColorLightShow(segment_groups, colors, size, space).activate(), as
\* client.py runs it
StaticShow(colors, size_of_color, space_between) ==
    /\ LET r == SolidActivateLoop(
                    device_pixels, Groups,
                    SolidColorLightShow(colors, size_of_color, space_between))
       IN /\ device_pixels' = r.buf
          /\ last' = [LastNone EXCEPT !.op = "static_show", !.value = colors,
                                      !.size_of_color = size_of_color,
                                      !.space_between = space_between,
                                      !.ok = r.ok]
    /\ UNCHANGED <<config, segment_groups, show, shows, threads, pending>>

\* show.deactivate() of a show without a thread: LightShow.deactivate
ShowDeactivate ==
    /\ device_pixels' = Blank(device_pixels, Groups)
    /\ last' = [LastNone EXCEPT !.op = "deactivate"]
    /\ UNCHANGED <<config, segment_groups, show, shows, threads, pending>>

\* One effect_loop call of a temporal show whose cursor is at pixel
ShowFrame(s, pixel) ==
    /\ LET r == EffectLoop(device_pixels, Groups, [s EXCEPT !.pixel = pixel])
       IN /\ device_pixels' = r.buf
          /\ last' = [LastNone EXCEPT !.op = "effect_loop", !.arg = s.kind,
                                      !.segment = pixel, !.ok = r.ok]
    /\ UNCHANGED <<config, segment_groups, show, shows, threads, pending>>

NextPixels ==
    \/ \E g \in 1..MaxSegments, k \in 1..MaxSegments, pixels \in PixelSeqs :
           SegmentWrite(g, k, pixels)
    \/ \E g \in 1..MaxSegments, pixels \in PixelSeqs : GroupWrite(g, pixels)
    \/ \E colors \in ColorLists, size_of_color \in 1..MaxSize,
          space_between \in 0..MaxSpace :
           StaticShow(colors, size_of_color, space_between)

SpecPixels == InitPixels /\ [][NextPixels]_vars

\* ------------------------------------------------------ SpecFrame
\* Every operation that writes pixels, on a configured machine: the writes
\* of one-colour sequences of every length, the static show, deactivate()
\* and the effect_loop calls of the temporal shows
FrameSeqs == {Repeat("BLUE", n) : n \in 0..(NumPixels + 1)}

NextFrame ==
    \/ \E g \in 1..MaxSegments, k \in 1..MaxSegments, pixels \in FrameSeqs :
           SegmentWrite(g, k, pixels)
    \/ \E g \in 1..MaxSegments, pixels \in FrameSeqs : GroupWrite(g, pixels)
    \/ \E colors \in ColorLists, size_of_color \in 1..MaxSize,
          space_between \in 0..MaxSpace :
           StaticShow(colors, size_of_color, space_between)
    \/ ShowDeactivate
    \/ \E s \in {LedChasing(<<"RED">>), SingleLedChasing("RED")},
          pixel \in 0..(NumPixels - 1) : ShowFrame(s, pixel)

SpecFrame == InitPixels /\ [][NextFrame]_vars

\* ================================================================ claims
AllBlack(buf) ==
    \A g \in 1..Len(Groups) :
        \A k \in 1..Len(GroupPixels(buf, Groups[g])) :
            GroupPixels(buf, Groups[g])[k] = BLACK

\* C1: at most one background frame-producing task is alive at any time.
C1_AtMostOneTask == AliveCount(Machine) <= 1

\* C2: once deactivate() of a temporal show has returned (its flag is
\* cleared and no handler is inside deactivate), no thread of that show
\* writes a frame: an effect_loop step of such a thread leaves every device
\* buffer as it was.
C2_NoWriteAfterDeactivate ==
    [][\A o \in Owners, referenced \in BOOLEAN :
          (pending = Idle /\ ~ThreadActive(Machine, o)
           /\ ThreadLoop(o, referenced))
          => device_pixels' = device_pixels]_vars

\* C3: deactivate() of a temporal show, called after activate(), clears the
\* flag first (it stays cleared while the handler waits in join, and the
\* pixels are not blanked by the call before the join), returns only once
\* the thread has finished, and has then blanked every group: when it
\* returns no thread of the show runs and every group pixel is (0, 0, 0).
\* The show has the one thread of its activate(): none it no longer refers to.
C3_DeactivateJoinsThenBlanks ==
    [][/\ pending' # Idle => ~shows'[show'].thread_active
       /\ (pending = Idle /\ pending' # Idle)
              => device_pixels' = device_pixels
       /\ (JoinReturn /\ pending.op = "power"
           /\ Unreferenced(Machine, show) = 0)
              => /\ show' = show
                 /\ Running([Machine EXCEPT !.shows = shows',
                                            !.threads = threads'],
                            show) = 0
                 /\ ~shows'[show].thread_active
                 /\ AllBlack(device_pixels')]_vars

\* C3 witness: deactivate() of the host's temporal show has joined its
\* thread after frames were produced, and the pixels are blank.
C3_Witness ==
    /\ last.op = "power" /\ last.arg = "OFF" /\ last.joined
    /\ show = "host" /\ shows["host"].pixel > 0
    /\ AliveCount(Machine) = 0
    /\ AllBlack(device_pixels)

\* C10: a power request for the state the show is already in changes
\* nothing (stated for the shows whose state the code records, the temporal
\* ones: ON while the flag is set, OFF while it is cleared).
C10_PowerNoOp ==
    [][\A on \in BOOLEAN :
          (PowerAction(on) /\ show # "none" /\ IsTemporal(shows[show])
           /\ shows[show].thread_active = on)
          => UNCHANGED <<show, shows, threads, device_pixels>>]_vars

\* ---------------------------------------------------- claims on SpecBuild
\* Two segments at different places of the configuration are on the same
\* device and their inclusive ranges share a pixel index
HasOverlap(cfg) ==
    \E g1 \in 1..Len(cfg), g2 \in 1..Len(cfg) :
        \E k1 \in 1..Len(cfg[g1]), k2 \in 1..Len(cfg[g2]) :
            /\ <<g1, k1>> # <<g2, k2>>
            /\ cfg[g1][k1].device_id = cfg[g2][k2].device_id
            /\ cfg[g1][k1].pixel_start <= cfg[g2][k2].pixel_end
            /\ cfg[g2][k2].pixel_start <= cfg[g1][k1].pixel_end

Range(seq) == {seq[k] : k \in 1..Len(seq)}

\* A segment of the configuration names a device that does not exist
HasUnknownDevice(cfg) ==
    \E seg \in Range(Flatten(cfg)) : seg.device_id \notin DeviceIds

\* A segment of the configuration starts after its end
HasMalformedRange(cfg) ==
    \E seg \in Range(Flatten(cfg)) : seg.pixel_start > seg.pixel_end

\* The segments of the configuration that are on device d
SegmentsOn(cfg, d) == {seg \in Range(Flatten(cfg)) : seg.device_id = d}

Covered(cfg, d, i) ==
    \E seg \in SegmentsOn(cfg, d) : seg.pixel_start <= i /\ i <= seg.pixel_end

\* The maximal runs of pixel indices of device d that no segment covers
MaximalUnusedRuns(cfg, d) ==
    {r \in (0..(PixelCount(d) - 1)) \X (0..(PixelCount(d) - 1)) :
        /\ r[1] <= r[2]
        /\ \A i \in r[1]..r[2] : ~Covered(cfg, d, i)
        /\ r[1] = 0 \/ Covered(cfg, d, r[1] - 1)
        /\ r[2] = PixelCount(d) - 1 \/ Covered(cfg, d, r[2] + 1)}

\* C4: with every device id known, construction fails exactly when two
\* segments on the same device share a pixel index of their inclusive
\* ranges, whatever their order and grouping, containment included.
C4_OverlapRejected ==
    (last.op = "construct" /\ ~HasUnknownDevice(config)
     /\ ~HasMalformedRange(config))
        => (segment_groups.status = "error" <=> HasOverlap(config))

\* C9: after a successful construction (of a configuration without
\* overlap), each device with a segment reports exactly the maximal runs of
\* pixels that no segment covers, each once, and a device without segments
\* reports nothing.
C9_UnusedRuns ==
    (last.op = "construct" /\ segment_groups.status = "ok"
     /\ ~HasOverlap(config) /\ ~HasMalformedRange(config))
        => \A d \in DeviceIds :
              IF SegmentsOn(config, d) = {}
              THEN segment_groups.unused[d] = <<>>
              ELSE /\ Range(segment_groups.unused[d])
                          = MaximalUnusedRuns(config, d)
                   /\ Len(segment_groups.unused[d])
                          = Cardinality(MaximalUnusedRuns(config, d))

\* --------------------------------------------------- claims on SpecPixels
\* The segment or group the last write was made to, and its pixels in buf
LastSegment == Groups[last.group][last.segment]

InclusiveRange(buf, seg) ==
    SubSeq(buf[seg.device_id], seg.pixel_start + 1, seg.pixel_end + 1)

\* C5: a write to a group of a sequence of the group's length succeeds, and
\* reading the group then returns the sequence written.
C5_GroupRoundTrip ==
    (last.op = "group_write"
     /\ Len(last.value) = Len(GroupPixels(device_pixels, Groups[last.group])))
        => /\ last.ok
           /\ GroupPixels(device_pixels, Groups[last.group]) = last.value

\* C6: a write to a segment or to a group of a sequence whose length is not
\* the current length of its pixels fails and leaves every device buffer as
\* it was.
C6_LengthMismatchFails ==
    [][/\ (/\ last'.op = "segment_write"
           /\ Len(last'.value) #
                 Len(SegmentPixels(device_pixels,
                                   Groups[last'.group][last'.segment])))
              => (~last'.ok /\ device_pixels' = device_pixels)
       /\ (/\ last'.op = "group_write"
           /\ Len(last'.value) #
                 Len(GroupPixels(device_pixels, Groups[last'.group])))
              => (~last'.ok /\ device_pixels' = device_pixels)]_vars

\* C6 witness: a write of too long a sequence to a group has failed while
\* the buffers held pixels written before.
C6_Witness ==
    /\ last.op = "group_write" /\ ~last.ok
    /\ Len(last.value) > Len(GroupPixels(device_pixels, Groups[last.group]))
    /\ device_pixels # NoPixels

\* C7: a segment's pixels are the device's pixels pixel_start through
\* pixel_end inclusive, and a write of pixel_end - pixel_start + 1 pixels
\* succeeds and replaces exactly those.
C7_InclusiveView ==
    last.op = "segment_write"
        => /\ SegmentPixels(device_pixels, LastSegment)
                  = InclusiveRange(device_pixels, LastSegment)
           /\ Len(last.value)
                  = LastSegment.pixel_end - LastSegment.pixel_start + 1
                 => /\ last.ok
                    /\ InclusiveRange(device_pixels, LastSegment) = last.value

\* C8: after activate() of a static show with colors of length n, size s and
\* space g, pixel i of every group is colors[(i div (s+g)) mod n] when
\* i mod (s+g) < s, and is what it was before otherwise.
C8_StaticPattern ==
    [][last'.op = "static_show"
          => /\ last'.ok
             /\ \A g \in 1..Len(Groups) :
                   LET before == GroupPixels(device_pixels, Groups[g])
                       after == GroupPixels(device_pixels', Groups[g])
                       period == last'.size_of_color + last'.space_between
                   IN \A i \in 0..(Len(before) - 1) :
                         after[i + 1] =
                            IF i % period < last'.size_of_color
                            THEN last'.value[((i \div period)
                                                 % Len(last'.value)) + 1]
                            ELSE before[i + 1]]_vars

\* ------------------------------------------------ claims on the handlers
\* The same show object with the same settings
SameShow(s, t) ==
    /\ s.kind = t.kind /\ s.colors = t.colors
    /\ s.size_of_color = t.size_of_color
    /\ s.space_between = t.space_between

\* The show is on: a temporal show has its flag set and a thread started, a
\* static one has written its first color at the start of every group
IsOn(buf, s) ==
    IF IsTemporal(s) THEN s.thread_active /\ s.thread = "started"
    ELSE \A g \in 1..Len(Groups) :
            GroupPixels(buf, Groups[g]) # <<>>
                => GroupPixels(buf, Groups[g])[1] = s.colors[1]

\* C11: power OFF leaves the slot on the same show with the same colors,
\* deactivated and blanked; a following ON activates that show, not the
\* default; ON without a show installs and activates the DEFAULT pattern;
\* OFF without a show leaves the slot empty.
C11_PowerKeepsShow ==
    [][/\ ((PowerAction(FALSE) \/ JoinReturn)
           /\ last'.op = "power" /\ pending' = Idle)
              => /\ show' = show
                 /\ show # "none"
                       => /\ SameShow(shows'[show], shows[show])
                          /\ ~shows'[show].thread_active
                          /\ AllBlack(device_pixels')
       /\ (PowerAction(TRUE) /\ show # "none")
              => /\ show' = show
                 /\ SameShow(shows'[show], shows[show])
                 /\ last'.ok => IsOn(device_pixels', shows'[show])
       /\ (PowerAction(TRUE) /\ show = "none")
              => /\ show' = "made"
                 /\ SameShow(shows'["made"],
                             SolidColorLightShow(<<"WARM_WHITE">>, 1, 3))
                 /\ last'.ok
                 /\ IsOn(device_pixels', shows'["made"])]_vars

\* C11 witness: a show with colors other than the default's has been turned
\* off and on again: it is the current show, on, with those colors.
C11_Witness ==
    /\ last.op = "power" /\ last.arg = "ON" /\ last.ok
    /\ show = "made"
    /\ shows["made"].colors = <<"RED", "BLUE">>
    /\ IsOn(device_pixels, shows["made"])

\* C12: a color action with a token that is not in the color table answers
\* 400 naming that token and changes neither the slot, nor the show (its
\* colors, its flag), nor its threads, nor any pixel; it creates no show.
C12_InvalidColor ==
    [][\A request \in RunRequests :
          (/\ ColorRequest(request)
           /\ \E k \in 1..Len(request.color_patterns) :
                 request.color_patterns[k] \notin COLOR_MAP)
          => /\ last'.status = 400
             /\ last'.arg \notin COLOR_MAP
             /\ \E k \in 1..Len(request.color_patterns) :
                   request.color_patterns[k] = last'.arg
             /\ UNCHANGED <<show, shows, threads, device_pixels>>]_vars

\* C12 witness: RED_AND_CHARTREUSE has been refused, naming CHARTREUSE,
\* while a temporal show was running with its frames on the pixels.
C12_Witness ==
    /\ last.op = "color" /\ last.status = 400 /\ last.arg = "CHARTREUSE"
    /\ last.value = <<"RED", "CHARTREUSE">>
    /\ show # "none" /\ shows[show].thread_active
    /\ ~AllBlack(device_pixels)

\* C13: the effect handler called with a name that is not in the registry
\* reports an error and leaves the current show as it is: the slot, the
\* show's flag and threads and every pixel are unchanged.
C13_InvalidEffect ==
    [][EffectAction(UnknownEffect)
          => /\ UNCHANGED <<show, shows, threads, device_pixels>>
             /\ pending' = Idle /\ ~last'.ok]_vars

\* The effect handler returns from a call for effect name
EffectReturns(name) ==
    \/ EffectAction(name) /\ pending' = Idle
    \/ JoinReturn /\ pending.op = "effect" /\ pending.arg = name

\* C14: an effect action for an entry that takes the caller's colors
\* replaces the slot by a new show, activates it, and gives it the color
\* list of the show that was current, or warm white when there was none
\* (stated for the shows the handlers have built).
C14_EffectCarriesColors ==
    [][\A name \in {"ALTERNATE_COLORS", "CHASING", "SOLID"} :
          (EffectReturns(name) /\ show # "host")
          => /\ show' = "made"
             /\ shows'["made"].colors =
                   IF show = "none" THEN <<"WARM_WHITE">>
                   ELSE shows[show].colors
             /\ last'.ok
             /\ IsOn(device_pixels', shows'["made"])]_vars

\* The color handler returns from a call for the tokens color_patterns
ColorReturns(color_patterns) ==
    \/ ColorAction(color_patterns) /\ pending' = Idle
    \/ JoinReturn /\ pending.op = "color" /\ pending.value = color_patterns

\* C15: a color action whose tokens all resolve deactivates the show (a
\* DEFAULT pattern show made first if there is none), then assigns the
\* colors, then activates: while it waits for the old thread the colors are
\* still the old ones; when it returns the show has the resolved colors and
\* is on, and of a temporal show only the thread just started runs (stated
\* for the shows the handlers have built).
C15_ColorOrdering ==
    [][\A request \in RunRequests :
          (/\ request.handler = "color"
           /\ \A k \in 1..Len(request.color_patterns) :
                 request.color_patterns[k] \in COLOR_MAP
           /\ show # "host")
          => /\ (ColorAction(request.color_patterns) /\ pending' # Idle)
                   => /\ shows'[show].colors = shows[show].colors
                      /\ ~shows'[show].thread_active
             /\ ColorReturns(request.color_patterns)
                   => /\ show' = IF show = "none" THEN "made" ELSE show
                      /\ show = "none" => shows'[show'].kind = "solid"
                      /\ shows'[show'].colors = request.color_patterns
                      /\ last'.ok
                      /\ IsOn(device_pixels', shows'[show'])
                      /\ IsTemporal(shows'[show'])
                            => Running([Machine EXCEPT !.shows = shows',
                                                       !.threads = threads'],
                                       show') = 1]_vars

\* ---------------------------------------------------- claims on SpecRoute
\* Two action strings differ only in letter case or in space versus '_'
SameButCaseAndSpace(a, b) ==
    /\ Len(a) = Len(b)
    /\ \A i \in 1..Len(a) :
          \/ UpperChar(a[i]) = UpperChar(b[i])
          \/ {a[i], b[i]} = {" ", "_"}

\* C16: action strings that differ only in case or in space versus '_' go
\* to the same handler with the same argument; the handler is the power
\* handler iff the normalized string is ON or OFF, else the effect handler
\* iff it is a key of the registry, else the color handler; and every key
\* of the registry is the effect some action string is routed to.
C16_Routing ==
    last.op = "route"
        => LET normalized == Normalize(last.value)
               power == normalized \in {Chars("ON"), Chars("OFF")}
               effect == ~power /\ normalized \in EffectKeys
           IN /\ \A other \in ActionStrings :
                     SameButCaseAndSpace(other, last.value)
                         => Dispatch(other) = last.dispatch
              /\ last.dispatch.handler =
                     IF power THEN "power"
                     ELSE IF effect THEN "effect" ELSE "color"
              /\ power => last.dispatch.on = (normalized = Chars("ON"))
              /\ ~power => last.dispatch.arg = normalized
              /\ \A key \in EffectKeys :
                     \E raw \in ActionStrings :
                         /\ Dispatch(raw).handler = "effect"
                         /\ Dispatch(raw).arg = key

\* ------------------------------------------- more claims on SpecBuild
\* C17: a configuration with a segment whose pixel_start is after its
\* pixel_end makes the construction fail: no groups are produced.
C17_MalformedRangeRejected ==
    (last.op = "construct" /\ HasMalformedRange(config))
        => /\ segment_groups.status = "error"
           /\ segment_groups.groups = <<>>

\* C18: a configuration with a segment of a device that does not exist
\* makes the construction fail, wherever the segment is: neither groups nor
\* a device map are produced.
C18_UnknownDeviceRejected ==
    (last.op = "construct" /\ HasUnknownDevice(config))
        => /\ segment_groups.status = "error"
           /\ segment_groups.groups = <<>>
           /\ \A d \in DeviceIds : segment_groups.device_map[d] = <<>>

\* C18 witness: the construction has failed for a configuration whose only
\* fault is its last segment, of a device that does not exist.
C18_Witness ==
    /\ last.op = "construct" /\ segment_groups.status = "error"
    /\ Len(Flatten(config)) > 1
    /\ Flatten(config)[Len(Flatten(config))].device_id \notin DeviceIds
    /\ ~HasUnknownDevice(<<SubSeq(Flatten(config), 1,
                                  Len(Flatten(config)) - 1)>>)
    /\ ~HasOverlap(config) /\ ~HasMalformedRange(config)

\* C20: after a successful construction (of a configuration without
\* overlap or malformed range), the segment list of every device holds each
\* segment of the device exactly once, in ascending order of pixel_start.
C20_DeviceMapShape ==
    (last.op = "construct" /\ segment_groups.status = "ok"
     /\ ~HasOverlap(config) /\ ~HasMalformedRange(config))
        => \A d \in DeviceIds :
              LET segments == segment_groups.device_map[d]
              IN /\ Range(segments) = SegmentsOn(config, d)
                 /\ Len(segments) = Cardinality(SegmentsOn(config, d))
                 /\ \A k \in 1..(Len(segments) - 1) :
                       segments[k].pixel_start <= segments[k + 1].pixel_start

\* ------------------------------------------- more claims on SpecPixels
\* The sum of the lengths of the segments' pixels
RECURSIVE SumOfSegmentLengths(_, _)
SumOfSegmentLengths(buf, segs) ==
    IF segs = <<>> THEN 0
    ELSE Len(SegmentPixels(buf, Head(segs)))
             + SumOfSegmentLengths(buf, Tail(segs))

\* C19: in every state, the length of each group's pixels is the sum of
\* the lengths of its segments' pixels.
C19_GroupLength ==
    \A g \in 1..Len(Groups) :
        Len(GroupPixels(device_pixels, Groups[g]))
            = SumOfSegmentLengths(device_pixels, Groups[g])

\* C19 witness: a group of two segments on two devices has been written
\* and holds pixels on both.
C19_Witness ==
    /\ last.op = "group_write" /\ last.ok
    /\ Len(Groups[last.group]) = 2
    /\ Groups[last.group][1].device_id # Groups[last.group][2].device_id
    /\ \A k \in 1..2 :
          /\ SegmentPixels(device_pixels, Groups[last.group][k]) # <<>>
          /\ SegmentPixels(device_pixels, Groups[last.group][k])[1] # BLACK

\* ------------------------------------------------ claims on the threads
\* C21: an effect_loop call of a LedChasing show with a non-empty color
\* list does not fail: for every group the cursor it indexes with is in
\* 0..len(group)-1, the cursor advances by one modulo the group's length,
\* the pixel at offset i from the cursor gets colors[i mod len(colors)],
\* and the thread goes on to its next iteration.
C21_ChasingLoopSafe ==
    [][\A o \in ShowIds, referenced \in BOOLEAN :
          (/\ ThreadLoop(o, referenced)
           /\ shows[o].kind = "chasing"
           /\ shows[o].colors # ColorsModule /\ shows[o].colors # <<>>)
          => /\ Running([Machine EXCEPT !.shows = shows',
                                        !.threads = threads'], o)
                   = Running(Machine, o)
             /\ \A g \in 1..Len(Groups) :
                   LET before == GroupPixels(device_pixels, Groups[g])
                       after == GroupPixels(device_pixels', Groups[g])
                       n == Len(before)
                       colors == shows[o].colors
                   IN /\ shows[o].pixel \in 0..(n - 1)
                      /\ shows'[o].pixel = (shows[o].pixel + 1) % n
                      /\ \A i \in 0..(n - 1) :
                            after[((shows'[o].pixel + i) % n) + 1]
                                = colors[(i % Len(colors)) + 1]]_vars

\* Threads of owner o that are inside the loop body (past the while test)
InLoop(M, o) ==
    M.threads[o]["loop"] + (IF M.shows[o].thread = "loop" THEN 1 ELSE 0)

\* C22: cooperative cancellation terminates. While deactivate() waits in
\* join the flag stays cleared and no thread of the show passes the while
\* test again (a thread already past it finishes that one effect_loop call,
\* a thread at the test exits, a finished thread stays finished), and under
\* fair scheduling of the threads the join completes: deactivate() returns
\* (the steps in which the join returns are those of JoinReturn).
C22_CancellationTerminates ==
    /\ [][Joined <=> JoinReturn]_vars
    /\ [][(pending # Idle /\ pending' # Idle)
             => /\ show' = show
                /\ ~shows'[show].thread_active
                /\ InLoop([Machine EXCEPT !.shows = shows',
                                          !.threads = threads'], show)
                       <= InLoop(Machine, show)
                /\ shows[show].thread = "started"
                       => shows'[show].thread \in {"started", "dead"}
                /\ shows[show].thread = "dead"
                       => shows'[show].thread = "dead"]_vars
    /\ (pending # Idle) ~> (pending = Idle)

\* C22 witness: deactivate() of the show a handler built has cleared the
\* flag and waits in join while the show's thread, already past its while
\* test, is in its one further effect_loop call.
C22_Witness ==
    /\ pending # Idle
    /\ show = "made" /\ ~shows["made"].thread_active
    /\ shows["made"].thread = "loop"

\* ------------------------------------------------ claims on the buffers
\* The pixel i of device d stays as it was
Kept(d, i) == device_pixels'[d][i + 1] = device_pixels[d][i + 1]

\* The pixel i of device d is in the configured range of one of segs
InRangeOf(segs, d, i) ==
    \E seg \in Range(segs) :
        /\ seg.device_id = d
        /\ seg.pixel_start <= i /\ i <= seg.pixel_end

\* C23: frame condition on the device buffers. No segment write, group
\* write, activate(), deactivate() or effect_loop call changes a buffer's
\* length, a pixel outside every configured segment range, or a pixel of a
\* device without a configured segment; a segment write changes only
\* pixels of the segment's own range on its own device, and a group write
\* only pixels in the ranges of the group's segments.
C23_FrameCondition ==
    [][\A d \in DeviceIds :
          /\ Len(device_pixels'[d]) = Len(device_pixels[d])
          /\ \A i \in 0..(PixelCount(d) - 1) :
                /\ ~Covered(config, d, i) => Kept(d, i)
                /\ (last'.op = "segment_write"
                    /\ ~InRangeOf(<<Groups[last'.group][last'.segment]>>,
                                  d, i))
                       => Kept(d, i)
                /\ (last'.op = "group_write"
                    /\ ~InRangeOf(Groups[last'.group], d, i))
                       => Kept(d, i)]_vars

\* C23 witness: a segment write has changed its segment's pixels on a
\* device that also has a pixel outside every configured range, while the
\* other device has been written too.
C23_Witness ==
    /\ last.op = "segment_write" /\ last.ok /\ last.value # <<>>
    /\ \E i \in 0..(PixelCount("a") - 1) :
           /\ ~Covered(config, "a", i)
           /\ device_pixels["a"][i + 1] = BLACK
    /\ \E i \in 0..(PixelCount("a") - 1) : device_pixels["a"][i + 1] # BLACK
    /\ \E i \in 0..(PixelCount("b") - 1) : device_pixels["b"][i + 1] # BLACK
=============================================================================
